---- MODULE Spec2Model ----
(***************************************************************************)
(* Model of flask_databrowser/form/convent.py: the converter registry      *)
(* (ModelConverterBase), the property conversion (AdminModelConverter),    *)
(* the form generator (get_form) and the inline-model helper               *)
(* (InlineModelConverterBase).                                             *)
(***************************************************************************)
EXTENDS Integers, Sequences, FiniteSets, TLC

VARIABLES
    converters,   \* ModelConverterBase.converters: type identifier -> converter
    use_mro,      \* ModelConverterBase.use_mro
    conv_call,    \* the last get_converter call: its column type and result
    view,         \* AdminModelConverter.view
    field_args,   \* the caller's field_args mapping, reused from call to call
    ret,          \* the last get_form / convert call: its arguments and outcome
    info_call,    \* the last get_info call: its argument and result
    session_queries  \* the session.query calls of the request: the models queried

vars == <<converters, use_mro, conv_call, view, field_args, ret, info_call,
          session_queries>>

\* Python's None.
None == "None"

\* dict.get(key) on a TLA+ function used as a dict.
Get(d, k) == IF k \in DOMAIN d THEN d[k] ELSE None

\* The empty dict.
EmptyDict == [k \in {} |-> None]

(***************************************************************************)
(* Converter registry                                                      *)
(***************************************************************************)

\* '%s.%s' % (col_type.__module__, col_type.__name__)
TypeString(col_type) == col_type.module \o "." \o col_type.name

\* The first loop of get_converter: index of the first type of the chain whose
\* module-qualified name is registered, 0 when the loop falls through.
RECURSIVE SearchByModuleAndName(_, _, _)
SearchByModuleAndName(convs, types, i) ==
    IF i > Len(types) THEN 0
    ELSE IF TypeString(types[i]) \in DOMAIN convs THEN i
    ELSE SearchByModuleAndName(convs, types, i + 1)

\* The second loop of get_converter: the same by short name.
RECURSIVE SearchByName(_, _, _)
SearchByName(convs, types, i) ==
    IF i > Len(types) THEN 0
    ELSE IF types[i].name \in DOMAIN convs THEN i
    ELSE SearchByName(convs, types, i + 1)

\* inspect.getmro(type(column.type)) when use_mro, else [type(column.type)].
\* A column type is given by its method resolution order, most derived first.
CandidateTypes(mro_enabled, mro) == IF mro_enabled THEN mro ELSE <<mro[1]>>

\* A plausible slip: one loop that tries both names of each type in turn.
RECURSIVE SearchInterleaved(_, _, _)
SearchInterleaved(convs, types, i) ==
    IF i > Len(types) THEN None
    ELSE IF TypeString(types[i]) \in DOMAIN convs THEN convs[TypeString(types[i])]
    ELSE IF types[i].name \in DOMAIN convs THEN convs[types[i].name]
    ELSE SearchInterleaved(convs, types, i + 1)

get_converter_interleaved(convs, mro_enabled, mro) ==
    SearchInterleaved(convs, CandidateTypes(mro_enabled, mro), 1)

\* ModelConverterBase.get_converter
get_converter(convs, mro_enabled, mro) ==
    LET types == CandidateTypes(mro_enabled, mro)
        q == SearchByModuleAndName(convs, types, 1)
        s == SearchByName(convs, types, 1)
    IN  IF q > 0 THEN convs[TypeString(types[q])]
        ELSE IF s > 0 THEN convs[types[s].name]
        ELSE None

\* Longest ancestor chain drawn for a direct get_converter call.
MaxChain == 3

\* Column types a registry is queried with: two types share the short name Text.
SaString == [module |-> "sqlalchemy.types", name |-> "String"]
SaText == [module |-> "sqlalchemy.types", name |-> "Text"]
AppText == [module |-> "myapp.types", name |-> "Text"]
PyObject == [module |-> "__builtin__", name |-> "object"]
ChainTypes == {SaString, SaText, AppText, PyObject}

\* Method resolution orders: sequences of distinct types, most derived first.
Chains ==
    UNION {{c \in [1..n -> ChainTypes] : \A i, j \in 1..n : i # j => c[i] # c[j]}
           : n \in 1..MaxChain}

\* Registries passed to ModelConverterBase(converters=...): any converters under
\* any of these identifiers.
RegistryKeys ==
    {"sqlalchemy.types.String", "sqlalchemy.types.Text", "myapp.types.Text",
     "String", "Text"}
RegistryValues == {"conv_a", "conv_b"}
Registries == UNION {[ks -> RegistryValues] : ks \in SUBSET RegistryKeys}

NoCall == [op |-> None]

\* The state of the form generator while only the registry is exercised.
FormIdle ==
    /\ view = None
    /\ field_args = EmptyDict
    /\ ret = NoCall
    /\ info_call = NoCall
    /\ session_queries = <<>>

InitConv ==
    /\ converters \in Registries
    /\ use_mro \in BOOLEAN
    /\ conv_call = NoCall
    /\ FormIdle

\* A call of get_converter(column) on the registry.
GetConverter ==
    /\ \E mro \in Chains :
        conv_call' = [op |-> "get_converter", mro |-> mro,
                      result |-> get_converter(converters, use_mro, mro)]
    /\ UNCHANGED <<converters, use_mro, view, field_args, ret, info_call, session_queries>>

NextConv == GetConverter

SpecConv == InitConv /\ [][NextConv]_vars

\* Indices of the chain whose qualified (short) name is registered.
QualifiedHits(convs, types) ==
    {i \in 1..Len(types) : TypeString(types[i]) \in DOMAIN convs}
ShortHits(convs, types) ==
    {i \in 1..Len(types) : types[i].name \in DOMAIN convs}
Least(S) == CHOOSE i \in S : \A j \in S : i <= j

\* C1: get_converter returns the converter of the most derived type whose
\* qualified name is registered; failing any, that of the most derived type
\* whose short name is registered; failing both, None.  Without use_mro the
\* chain is the concrete type alone.
C1_QualifiedBeatsShort ==
    conv_call.op = "get_converter" =>
        LET types == IF use_mro THEN conv_call.mro ELSE <<conv_call.mro[1]>>
            qh == QualifiedHits(converters, types)
            sh == ShortHits(converters, types)
        IN  /\ qh # {} =>
                conv_call.result = converters[TypeString(types[Least(qh)])]
            /\ (qh = {} /\ sh # {}) =>
                conv_call.result = converters[types[Least(sh)].name]
            /\ (qh = {} /\ sh = {}) => conv_call.result = None

\* C1 witness: the most derived type is registered by short name only, an
\* ancestor by qualified name, with different converters, and the ancestor's wins.
C1_Witness ==
    /\ conv_call.op = "get_converter"
    /\ use_mro
    /\ Len(conv_call.mro) >= 2
    /\ conv_call.mro[1].name \in DOMAIN converters
    /\ TypeString(conv_call.mro[1]) \notin DOMAIN converters
    /\ TypeString(conv_call.mro[2]) \in DOMAIN converters
    /\ converters[conv_call.mro[1].name] # converters[TypeString(conv_call.mro[2])]
    /\ conv_call.result = converters[TypeString(conv_call.mro[2])]

(***************************************************************************)
(* Column types, columns and properties (the mapping layer's descriptors)  *)
(***************************************************************************)

Ty(module, name) == [module |-> module, name |-> name]
SaTypes == "sqlalchemy.types"
BooleanClass == Ty(SaTypes, "Boolean")
TypeEngine == Ty(SaTypes, "TypeEngine")
Object == Ty("__builtin__", "object")

\* type(column.type) by its method resolution order, with the attributes the
\* converters read: length, enums (has_enums: the type has the attribute),
\* unsigned and scale (has_scale likewise; scale is <<>> for None).
StringType(length) ==
    [mro |-> <<Ty(SaTypes, "String"), TypeEngine, Object>>,
     length |-> length, has_enums |-> FALSE, enums |-> <<>>, unsigned |-> FALSE, has_scale |-> FALSE, scale |-> <<>>]
EnumType ==
    [mro |-> <<Ty(SaTypes, "Enum"), Ty(SaTypes, "String"), TypeEngine, Object>>,
     length |-> 0, has_enums |-> TRUE, enums |-> <<"a", "b">>, unsigned |-> FALSE, has_scale |-> FALSE, scale |-> <<>>]
BooleanType ==
    [mro |-> <<BooleanClass, TypeEngine, Object>>,
     length |-> 0, has_enums |-> FALSE, enums |-> <<>>, unsigned |-> FALSE, has_scale |-> FALSE, scale |-> <<>>]
IntegerType(unsigned) ==
    [mro |-> <<Ty(SaTypes, "Integer"), TypeEngine, Object>>,
     length |-> 0, has_enums |-> FALSE, enums |-> <<>>, unsigned |-> unsigned, has_scale |-> FALSE, scale |-> <<>>]
LargeBinaryType ==
    [mro |-> <<Ty(SaTypes, "LargeBinary"), Ty(SaTypes, "_Binary"), TypeEngine, Object>>,
     length |-> 16, has_enums |-> FALSE, enums |-> <<>>, unsigned |-> FALSE, has_scale |-> FALSE, scale |-> <<>>]
NumericType(scale) ==
    [mro |-> <<Ty(SaTypes, "Numeric"), TypeEngine, Object>>,
     length |-> 0, has_enums |-> FALSE, enums |-> <<>>, unsigned |-> FALSE,
     has_scale |-> TRUE, scale |-> scale]
\* A type no converter is registered for.
IntervalType ==
    [mro |-> <<Ty(SaTypes, "Interval"), Ty(SaTypes, "TypeDecorator"), TypeEngine, Object>>,
     length |-> 0, has_enums |-> FALSE, enums |-> <<>>, unsigned |-> FALSE, has_scale |-> FALSE, scale |-> <<>>]

\* isinstance(column.type, Boolean)
IsBoolean(type) == \E i \in 1..Len(type.mro) : type.mro[i] = BooleanClass

\* column.default: None, or a default with its arg; result is what a callable
\* arg returns when called with a None context.
NoDefault == [arg |-> None, is_callable |-> FALSE, is_scalar |-> TRUE, result |-> None]
ScalarDefault == [arg |-> "guest", is_callable |-> FALSE, is_scalar |-> TRUE, result |-> None]
CallableDefault == [arg |-> "now", is_callable |-> TRUE, is_scalar |-> FALSE, result |-> "now(None)"]
ClauseDefault == [arg |-> "func.now()", is_callable |-> FALSE, is_scalar |-> FALSE, result |-> None]

Col(type, nullable, unique, primary_key) ==
    [type |-> type, nullable |-> nullable, unique |-> unique,
     primary_key |-> primary_key, foreign_keys |-> FALSE, is_column |-> TRUE,
     default |-> NoDefault]

\* A property with a columns attribute (ColumnProperty).
ColumnProp(key, columns) == [kind |-> "column", key |-> key, columns |-> columns]

\* A property with a direction attribute (RelationshipProperty);
\* local_column is prop.local_remote_pairs[0][0].
RelationProp(key, direction, nullable, foreign_keys) ==
    [kind |-> "relation", key |-> key, direction |-> direction,
     local_column |-> [nullable |-> nullable, foreign_keys |-> foreign_keys],
     remote_model |-> "Group"]

\* A mapped property with neither attribute.
OtherProp(key) == [kind |-> "other", key |-> key]

(***************************************************************************)
(* AdminModelConverter                                                     *)
(***************************************************************************)

\* The registry ModelConverterBase.__init__ collects from the @converts tags.
AdminConverters ==
    [k \in {"String", "Unicode"} |-> "conv_String"] @@
    [k \in {"Text", "UnicodeText", "sqlalchemy.types.LargeBinary",
            "sqlalchemy.types.Binary"} |-> "conv_Text"] @@
    [k \in {"Boolean"} |-> "conv_Boolean"] @@
    [k \in {"Date"} |-> "convert_date"] @@
    [k \in {"DateTime"} |-> "convert_datetime"] @@
    [k \in {"Time"} |-> "convert_time"] @@
    [k \in {"Integer", "SmallInteger"} |-> "handle_integer_types"] @@
    [k \in {"Numeric", "Float"} |-> "handle_decimal_types"] @@
    [k \in {"databases.mysql.MSYear"} |-> "conv_MSYear"] @@
    [k \in {"databases.postgres.PGInet", "dialects.postgresql.base.INET"} |-> "conv_PGInet"] @@
    [k \in {"dialects.postgresql.base.MACADDR"} |-> "conv_PGMacaddr"] @@
    [k \in {"dialects.postgresql.base.UUID"} |-> "conv_PGUuid"] @@
    [k \in {"sqlalchemy.dialects.postgresql.base.ARRAY"} |-> "conv_ARRAY"]

\* d[k] = v on a dict.
Put(d, k, v) == [x \in DOMAIN d \cup {k} |-> IF x = k THEN v ELSE d[x]]

\* kwargs['validators'].append(v): the list object is extended in place.
AppendValidator(kwargs, v) == Put(kwargs, "validators", Append(kwargs["validators"], v))

\* d.setdefault(k, v)
SetDefault(d, k, v) == IF k \in DOMAIN d THEN d ELSE Put(d, k, v)

\* A constructed field: its class and the keyword arguments it was given.
Field(class, kwargs) == [class |-> class, kwargs |-> kwargs]

\* view.prettify_name(name)
prettify_name(name) == "prettify_name(" \o name \o ")"

\* Truth value of a dict.  An attribute that is None or missing is held as the
\* empty dict: the code only tests such attributes for truth before reading them.
Truthy(d) == DOMAIN d # {}

\* An attribute that the code tests with "is None": <<>> is None, <<x>> is x.
NoneValue == <<>>
Some(x) == <<x>>
IsNone(o) == Len(o) = 0
Value(o) == o[1]

\* x in seq
Contains(seq, x) == \E i \in 1..Len(seq) : seq[i] = x

\* AdminModelConverter._get_label
_get_label(v, name, kwargs) ==
    IF "label" \in DOMAIN kwargs THEN kwargs["label"]
    ELSE IF Truthy(v.column_labels) THEN Get(v.column_labels, name)
    ELSE prettify_name(name)

\* AdminModelConverter._get_description
_get_description(v, name, kwargs) ==
    IF "description" \in DOMAIN kwargs THEN kwargs["description"]
    ELSE IF Truthy(v.column_descriptions) THEN Get(v.column_descriptions, name)
    ELSE None

\* AdminModelConverter._get_label_func
_get_label_func(v, name, kwargs) ==
    IF "get_label" \in DOMAIN kwargs THEN kwargs["get_label"]
    ELSE IF Truthy(v.form_formatters) THEN Get(v.form_formatters, name)
    ELSE prettify_name(name)

\* AdminModelConverter._get_field_override
_get_field_override(v, name) ==
    IF Truthy(v.form_overrides) THEN Get(v.form_overrides, name) ELSE None

\* AdminModelConverter._string_common
_string_common(column, kwargs) ==
    IF column.type.length # 0 THEN AppendValidator(kwargs, "Length") ELSE kwargs

\* [(f, f) for f in column.type.enums]
Choices(enums) == [i \in 1..Len(enums) |-> <<enums[i], enums[i]>>]

\* The converter methods.  Each returns the field it builds and field_args as
\* it leaves it (field_args is the kwargs dict of convert, changed in place).
conv_String(column, kwargs) ==
    IF column.type.has_enums
    THEN LET k == Put(AppendValidator(kwargs, "AnyOf"), "choices", Choices(column.type.enums))
         IN  Field("Select2Field", k)
    ELSE Field("TextField", _string_common(column, kwargs))

conv_Text(column, kwargs) == Field("TextAreaField", _string_common(column, kwargs))

conv_Boolean(column, kwargs) == Field("BooleanField", kwargs)

convert_date(column, kwargs) == Field("DateField", Put(kwargs, "widget", "DatePickerWidget"))

convert_datetime(column, kwargs) ==
    Field("DateTimeField", Put(kwargs, "widget", "DateTimePickerWidget"))

convert_time(column, kwargs) == Field("TimeField", kwargs)

handle_integer_types(column, kwargs) ==
    Field("IntegerField",
          IF column.type.unsigned THEN AppendValidator(kwargs, "NumberRange") ELSE kwargs)

handle_decimal_types(column, kwargs) ==
    LET places == IF column.type.has_scale THEN column.type.scale ELSE <<2>>
    IN  Field("DecimalField",
              IF Len(places) # 0 THEN Put(kwargs, "places", places[1]) ELSE kwargs)

conv_MSYear(column, kwargs) == Field("TextField", AppendValidator(kwargs, "NumberRange"))

conv_PGInet(column, kwargs) ==
    Field("TextField", AppendValidator(SetDefault(kwargs, "label", "IP Address"), "IPAddress"))

conv_PGMacaddr(column, kwargs) ==
    Field("TextField", AppendValidator(SetDefault(kwargs, "label", "MAC Address"), "MacAddress"))

conv_PGUuid(column, kwargs) ==
    Field("TextField", AppendValidator(SetDefault(kwargs, "label", "UUID"), "UUID"))

conv_ARRAY(column, kwargs) == Field("Select2TagsField", Put(kwargs, "save_as_list", TRUE))

\* converter(model=model, mapper=mapper, prop=prop, column=column, field_args=kwargs)
CallConverter(converter, column, kwargs) ==
    CASE converter = "conv_String" -> conv_String(column, kwargs)
      [] converter = "conv_Text" -> conv_Text(column, kwargs)
      [] converter = "conv_Boolean" -> conv_Boolean(column, kwargs)
      [] converter = "convert_date" -> convert_date(column, kwargs)
      [] converter = "convert_datetime" -> convert_datetime(column, kwargs)
      [] converter = "convert_time" -> convert_time(column, kwargs)
      [] converter = "handle_integer_types" -> handle_integer_types(column, kwargs)
      [] converter = "handle_decimal_types" -> handle_decimal_types(column, kwargs)
      [] converter = "conv_MSYear" -> conv_MSYear(column, kwargs)
      [] converter = "conv_PGInet" -> conv_PGInet(column, kwargs)
      [] converter = "conv_PGMacaddr" -> conv_PGMacaddr(column, kwargs)
      [] converter = "conv_PGUuid" -> conv_PGUuid(column, kwargs)
      [] converter = "conv_ARRAY" -> conv_ARRAY(column, kwargs)

\* What a call of convert leaves: the field returned (NoField for None), the
\* exception raised (None for a normal return) and kwargs as the call leaves it.
NoField == [class |-> None, kwargs |-> EmptyDict]
Returned(field, kwargs) == [raised |-> None, field |-> field, kwargs |-> kwargs]
Raised(exception, kwargs) == [raised |-> exception, field |-> NoField, kwargs |-> kwargs]

\* kwargs = {'validators': [], 'filters': []}; if field_args: kwargs.update(field_args).
\* The update stores the caller's own values: a caller's 'validators' list
\* becomes kwargs['validators'], the same list object.
InitialKwargs(args) == args @@ [k \in {"validators", "filters"} |-> <<>>]

\* A plausible slip: a required validator for many-to-many relations as well.
RelationValidatorsAlways(prop, kwargs) ==
    IF prop.local_column.nullable THEN AppendValidator(kwargs, "Optional")
    ELSE AppendValidator(kwargs, "Required")

\* convert, relation branch: the validator chosen by the local column's nullability.
RelationValidators(prop, kwargs) ==
    IF prop.local_column.nullable THEN AppendValidator(kwargs, "Optional")
    ELSE IF prop.direction # "MANYTOMANY" THEN AppendValidator(kwargs, "Required")
    ELSE kwargs

\* A plausible slip: the query is made at once, kwargs holding the Query object
\* self.session.query(remote_model) instead of a callable.
QueryFactoryEager(remote_model) == [query |-> "session.query", remote_model |-> remote_model]

\* lambda: self.session.query(remote_model), not called here.
QueryFactory(remote_model) == [lambda |-> "session.query", remote_model |-> remote_model]

\* The session.query calls convert has made when it leaves kwargs: one for a
\* Query object stored in kwargs, none for a callable, whose call is still to
\* be made.  session.query appears nowhere else in convert or get_form.
SessionQueries(kwargs) ==
    IF "query_factory" \in DOMAIN kwargs /\ "query" \in DOMAIN kwargs["query_factory"]
    THEN <<kwargs["query_factory"].remote_model>>
    ELSE <<>>

\* convert, the branch of a property that has a direction.
ConvertRelation(v, prop, kwargs0) ==
    LET local_column == prop.local_column
        k1 == Put(kwargs0, "label", _get_label(v, prop.key, kwargs0))
        k2 == Put(k1, "description", _get_description(v, prop.key, k1))
        k3 == Put(k2, "get_label", _get_label_func(v, prop.key, k2))
        k4 == RelationValidators(prop, k3)
        override == _get_field_override(v, prop.key)
        k5 == SetDefault(k4, "allow_blank", <<local_column.nullable>>)
        k6 == SetDefault(k5, "query_factory", QueryFactory(prop.remote_model))
    IN  IF override # None THEN Returned(Field(override, k4), k4)
        ELSE IF prop.direction = "MANYTOONE"
        THEN Returned(Field("QuerySelectField", Put(k6, "widget", "Select2Widget")), k6)
        ELSE IF prop.direction = "ONETOMANY"
        THEN IF ~local_column.foreign_keys /\ v.column_hide_backrefs
             THEN Returned(NoField, k6)
             ELSE Returned(Field("QuerySelectMultipleField",
                                 Put(k6, "widget", "Select2Widget(multiple=True)")), k6)
        ELSE IF prop.direction = "MANYTOMANY"
        THEN Returned(Field("QuerySelectMultipleField",
                            Put(k6, "widget", "Select2Widget(multiple=True)")), k6)
        ELSE Returned(NoField, k6)

\* A plausible slip: the primary key is let through whenever a list is set.
PrimaryKeyIgnoredAnyList(v, key) == IsNone(v.form_columns)

\* convert, primary key without hidden_pk: form_columns is None, or the key is
\* not in form_columns.
PrimaryKeyIgnored(v, key) ==
    IsNone(v.form_columns) \/ ~Contains(Value(v.form_columns), key)

\* A plausible slip: the required validator is forgotten.
RequiredValidatorForgotten(column, kwargs) == kwargs

\* if not column.nullable and not isinstance(column.type, Boolean): Required()
RequiredValidator(column, kwargs) ==
    IF ~column.nullable /\ ~IsBoolean(column.type)
    THEN AppendValidator(kwargs, "Required") ELSE kwargs

\* if column.nullable: Optional()
OptionalValidator(column, kwargs) ==
    IF column.nullable THEN AppendValidator(kwargs, "Optional") ELSE kwargs

\* convert, "Figure out default value": the value, None when there is none.
DefaultValue(default) ==
    IF default.arg = None THEN None
    ELSE IF default.is_callable THEN default.result
    ELSE IF ~default.is_scalar THEN None
    ELSE default.arg

\* convert, the branch of a property that has columns.
ConvertColumn(v, mapper_class, prop, kwargs0, hidden_pk) ==
    IF Len(prop.columns) # 1 THEN Raised("TypeError", kwargs0)
    ELSE
    LET column == prop.columns[1]
        unique == column.primary_key
        k1 == IF column.primary_key THEN AppendValidator(kwargs0, "Unique") ELSE kwargs0
        k2 == IF column.unique /\ ~unique THEN AppendValidator(k1, "Unique") ELSE k1
        k3 == RequiredValidator(column, k2)
        k4 == IF v.model = mapper_class
              THEN LET l == Put(k3, "label", _get_label(v, prop.key, k3))
                   IN  Put(l, "description", _get_description(v, prop.key, l))
              ELSE k3
        value == DefaultValue(column.default)
        k5 == IF value # None THEN Put(k4, "default", value) ELSE k4
        k6 == OptionalValidator(column, k5)
        override == _get_field_override(v, prop.key)
        converter == get_converter(AdminConverters, TRUE, column.type.mro)
        built == CallConverter(converter, column, k6)
    IN  IF column.foreign_keys THEN Returned(NoField, kwargs0)
        ELSE IF ~column.is_column THEN Returned(NoField, kwargs0)
        ELSE IF column.primary_key /\ hidden_pk
        THEN Returned(Field("HiddenField", EmptyDict), kwargs0)
        ELSE IF column.primary_key /\ PrimaryKeyIgnored(v, prop.key)
        THEN Returned(NoField, kwargs0)
        ELSE IF override # None THEN Returned(Field(override, k6), k6)
        ELSE IF converter = None THEN Returned(NoField, k6)
        ELSE Returned(built, built.kwargs)

\* AdminModelConverter.convert(model, mapper, prop, field_args, hidden_pk).
\* args is the field_args parameter, the empty dict standing for None as well.
convert(v, mapper_class, prop, args, hidden_pk) ==
    LET kwargs == IF Truthy(args) THEN InitialKwargs(args) ELSE InitialKwargs(EmptyDict)
    IN  IF prop.kind = "relation" THEN ConvertRelation(v, prop, kwargs)
        ELSE IF prop.kind = "column" THEN ConvertColumn(v, mapper_class, prop, kwargs, hidden_pk)
        ELSE Returned(NoField, kwargs)

(***************************************************************************)
(* get_form                                                                *)
(***************************************************************************)

\* A mapped property that proxies another one (it has _proxied_property).
ProxyProp(key, target) == [kind |-> "other", key |-> key, proxied |-> <<target>>]

\* What find(name) raises ValueError for, held as a property so that the
\* generator can carry it to the place where the pair is pulled.
InvalidProperty == [kind |-> "invalid"]

\* name.startswith('_'), over the names drawn here.
StartsWithUnderscore(name) == name \in {"_token", "_bogus"}

\* hasattr(p, '_proxied_property')
HasProxied(p) == p.kind = "other" /\ "proxied" \in DOMAIN p

\* props = dict(properties); props.get(name): <<>> for None.
PropsGet(model, name) ==
    LET hits == {i \in 1..Len(model.properties) : model.properties[i].key = name}
    IN  IF hits = {} THEN <<>>
        ELSE <<model.properties[CHOOSE i \in hits : \A j \in hits : j <= i]>>

\* find(name) of get_form
find(model, name) ==
    LET p == PropsGet(model, name)
    IN  IF Len(p) # 0
        THEN IF HasProxied(p[1]) THEN p[1].proxied[1] ELSE p[1]
        ELSE IF name \in DOMAIN model.attrs /\ model.attrs[name].has_property
        THEN model.attrs[name].property
        ELSE InvalidProperty

\* The properties generator get_form iterates: (name, property) pairs, each
\* computed when it is pulled.  only is <<>> for None, else <<list>>; exclude is
\* a set, the empty set standing for None as well.
OnlyGiven(only) == Len(only) # 0 /\ Len(only[1]) # 0

Properties(model, only, exclude) ==
    IF OnlyGiven(only)
    THEN [i \in 1..Len(only[1]) |-> [name |-> only[1][i], prop |-> find(model, only[1][i])]]
    ELSE LET all == [i \in 1..Len(model.properties) |->
                        [name |-> model.properties[i].key, prop |-> model.properties[i]]]
             Kept(x) == x.name \notin exclude
         IN  IF exclude # {} THEN SelectSeq(all, Kept) ELSE all

\* field_args.get(name), the empty dict standing for None.
FieldArgsGet(fa, name) == IF name \in DOMAIN fa THEN fa[name] ELSE EmptyDict

\* The caller's mapping after a convert call that was given fa.get(name): a
\* 'validators' list in it is the list convert appended to.
AfterConvert(fa, name, r) ==
    IF name \in DOMAIN fa /\ "validators" \in DOMAIN fa[name]
    THEN [fa EXCEPT ![name] = Put(@, "validators", r.kwargs["validators"])]
    ELSE fa

\* A plausible slip: protected names are never skipped.
IgnoredNever(ignore_hidden, name) == FALSE

\* if ignore_hidden and name.startswith('_'): continue
Ignored(ignore_hidden, name) == ignore_hidden /\ StartsWithUnderscore(name)

\* The for loop of get_form from pair i on.  acc holds field_dict, the names
\* convert was called for (calls), the caller's field_args mapping (fa) and
\* the exception that ended the loop (raised).
RECURSIVE Loop(_, _, _, _, _, _, _)
Loop(v, model, pairs, i, hidden_pk, ignore_hidden, acc) ==
    IF i > Len(pairs) THEN acc
    ELSE IF pairs[i].prop.kind = "invalid" THEN [acc EXCEPT !.raised = "ValueError"]
    ELSE IF Ignored(ignore_hidden, pairs[i].name)
    THEN Loop(v, model, pairs, i + 1, hidden_pk, ignore_hidden, acc)
    ELSE
    LET name == pairs[i].name
        r == convert(v, model.name, pairs[i].prop, FieldArgsGet(acc.fa, name), hidden_pk)
        called == [acc EXCEPT !.calls = Append(@, name),
                              !.fa = AfterConvert(acc.fa, name, r),
                              !.queries = @ \o SessionQueries(r.kwargs)]
    IN  IF r.raised # None THEN [called EXCEPT !.raised = r.raised]
        ELSE IF r.field.class # None
        THEN Loop(v, model, pairs, i + 1, hidden_pk, ignore_hidden,
                  [called EXCEPT !.field_dict = Put(@, name, r.field)])
        ELSE Loop(v, model, pairs, i + 1, hidden_pk, ignore_hidden, called)

\* get_form(model, converter, base_class, only, exclude, field_args, hidden_pk,
\* ignore_hidden) with the converter of view v: the loop's outcome and, when
\* nothing was raised, the form class.
get_form(v, model, only, exclude, fa, hidden_pk, ignore_hidden) ==
    LET start == [field_dict |-> EmptyDict, calls |-> <<>>, fa |-> fa, raised |-> None,
                  queries |-> <<>>]
    IN  IF ~model.mapped THEN [start EXCEPT !.raised = "TypeError"]
        ELSE Loop(v, model, Properties(model, only, exclude), 1,
                  hidden_pk, ignore_hidden, start)

\* type(model.__name__ + 'Form', (base_class, ), field_dict)
FormClass(model, field_dict) ==
    [name |-> model.name \o "Form", base |-> "BaseForm", fields |-> field_dict]

(***************************************************************************)
(* The models, views and arguments the generator is run on                 *)
(***************************************************************************)

\* Longest inclusion list passed to get_form.
MaxOnly == 2
\* A caller's validators list is passed again while it is at most this long.
MaxReused == 2

\* The session.query calls followed within one request.
MaxQueries == 2

\* The properties of User in mapper.iterate_properties order.
UserId == ColumnProp("id", <<Col(IntegerType(FALSE), FALSE, FALSE, TRUE)>>)
UserName == ColumnProp("name", <<Col(StringType(50), FALSE, FALSE, FALSE)>>)
UserEmail == ColumnProp("email", <<Col(StringType(0), TRUE, TRUE, FALSE)>>)
UserToken == ColumnProp("_token", <<Col(StringType(0), TRUE, FALSE, FALSE)>>)
UserGroupId ==
    ColumnProp("group_id", <<[Col(IntegerType(FALSE), TRUE, FALSE, FALSE)
                                EXCEPT !.foreign_keys = TRUE]>>)
UserGroup == RelationProp("group", "MANYTOONE", TRUE, TRUE)
UserSeen == ColumnProp("seen", <<Col(IntervalType, TRUE, FALSE, FALSE)>>)
UserNick == ProxyProp("nick", UserName)

User ==
    [name |-> "User", mapped |-> TRUE,
     properties |-> <<UserId, UserName, UserEmail, UserToken, UserGroupId,
                      UserGroup, UserSeen, UserNick>>,
     attrs |-> [a \in {"contact", "save"} |->
                   IF a = "contact"
                   THEN [has_property |-> TRUE, property |-> UserEmail]
                   ELSE [has_property |-> FALSE, property |-> InvalidProperty]]]

\* A model with a property mapped to two columns.
PlaceId == ColumnProp("id", <<Col(IntegerType(TRUE), FALSE, FALSE, TRUE)>>)
PlaceTitle == ColumnProp("title", <<Col(StringType(50), TRUE, FALSE, FALSE)>>)
PlacePoint ==
    ColumnProp("point", <<Col(IntegerType(FALSE), FALSE, FALSE, FALSE),
                          Col(IntegerType(FALSE), FALSE, FALSE, FALSE)>>)
Place ==
    [name |-> "Place", mapped |-> TRUE,
     properties |-> <<PlaceId, PlaceTitle, PlacePoint>>,
     attrs |-> EmptyDict]

\* An object without _sa_class_manager.
NotMapped == [name |-> "dict", mapped |-> FALSE, properties |-> <<>>, attrs |-> EmptyDict]

\* Columns convert is called with directly, under the key "id".
ColumnTypes ==
    {StringType(50), EnumType, BooleanType, IntegerType(TRUE), LargeBinaryType,
     IntervalType}
PlainColumns ==
    {Col(t, n, u, pk) : t \in ColumnTypes, n \in BOOLEAN, u \in BOOLEAN, pk \in BOOLEAN}
DefaultColumns ==
    {[Col(StringType(0), n, FALSE, pk) EXCEPT !.default = d] :
        n \in BOOLEAN, pk \in BOOLEAN,
        d \in {ScalarDefault, CallableDefault, ClauseDefault}}
OddColumns ==
    {[Col(IntegerType(FALSE), FALSE, FALSE, pk) EXCEPT !.foreign_keys = fk, !.is_column = c] :
        pk \in BOOLEAN, fk \in BOOLEAN, c \in BOOLEAN}
NumericColumns == {Col(NumericType(sc), TRUE, FALSE, FALSE) : sc \in {<<>>, <<4>>}}
DrawnProperties ==
    {ColumnProp("id", <<c>>) :
        c \in PlainColumns \cup DefaultColumns \cup OddColumns \cup NumericColumns}
    \cup {RelationProp("group", d, n, fk) :
            d \in {"MANYTOONE", "ONETOMANY", "MANYTOMANY"}, n \in BOOLEAN, fk \in BOOLEAN}
    \cup {PlacePoint, ColumnProp("id", <<>>), OtherProp("id")}

\* field_args dicts a caller builds for one direct convert call.
DrawnArgs ==
    {EmptyDict,
     [k \in {"label"} |-> "Explicit"],
     [k \in {"validators"} |-> <<"Email">>],
     [k \in {"query_factory"} |-> [lambda |-> "caller", remote_model |-> "Group"]]}

\* The views a converter is built for.  form_columns is <<>> for None.
View(fc, cl, cd, fo, hb, ff) ==
    [model |-> "User",
     form_columns |-> fc,
     column_labels |-> cl,
     column_descriptions |-> cd,
     form_overrides |-> fo,
     column_hide_backrefs |-> hb,
     form_formatters |-> ff]
Descriptions == [k \in {"name"} |-> "The name"]
Formatters == [k \in {"group"} |-> "format_group"]
FormColumns == {NoneValue, Some(<<"id", "name">>), Some(<<"name">>)}
ColumnLabels == {EmptyDict, [k \in {"group"} |-> "Team"], [k \in {"name"} |-> "Full name"]}
FormOverrides == {EmptyDict, [k \in {"id", "group"} |-> "CustomField"]}
Views ==
    {View(fc, cl, Descriptions, fo, FALSE, EmptyDict) :
        fc \in FormColumns, cl \in ColumnLabels, fo \in FormOverrides}
    \cup {View(NoneValue, cl, EmptyDict, fo, TRUE, Formatters) :
            cl \in ColumnLabels, fo \in FormOverrides}

\* The field_args mapping the caller keeps and passes to every call.
CallerFieldArgs ==
    {EmptyDict,
     [n \in {"name", "email"} |->
        IF n = "name" THEN [k \in {"label"} |-> "Full name"]
        ELSE [k \in {"validators"} |-> <<"Email">>]]}

\* Inclusion lists: None, or a list of at most MaxOnly of these names.
OnlyNames == {"id", "email", "_token", "nick", "contact", "bogus"}
OnlyLists == UNION {[1..n -> OnlyNames] : n \in 0..MaxOnly}
Onlys == {NoneValue} \cup {Some(l) : l \in OnlyLists}
Excludes == {{}, {"name", "_token", "bogus"}}

\* The get_form calls made: any inclusion list on User (with an exclusion list
\* beside the lists of at most one name), a few calls on the other two models.
OnlyWithExclude(o, e) == e = {} \/ Len(o) = 0 \/ Len(o[1]) <= 1
GetFormCalls ==
    {c \in [model : {User}, only : Onlys, exclude : Excludes] :
        OnlyWithExclude(c.only, c.exclude)}
    \cup {[model |-> Place, only |-> o, exclude |-> e] :
            o \in {NoneValue, Some(<<"title", "point">>), Some(<<"bogus", "point">>)},
            e \in {{}, {"point"}}}
    \cup {[model |-> NotMapped, only |-> NoneValue, exclude |-> {}]}

\* The caller's lists are short enough to be passed again.
Reusable ==
    \A n \in DOMAIN field_args :
        "validators" \in DOMAIN field_args[n] => Len(field_args[n]["validators"]) <= MaxReused

ConvIdle ==
    /\ converters = AdminConverters
    /\ use_mro = TRUE
    /\ conv_call = NoCall

Init ==
    /\ ConvIdle
    /\ view \in Views
    /\ field_args \in CallerFieldArgs
    /\ ret = NoCall
    /\ info_call = NoCall
    /\ session_queries = <<>>

\* converter.convert(model, mapper, prop, args, hidden_pk) called directly, on
\* a drawn property with a dict built for the call.
ConvertDrawn ==
    /\ ret = NoCall
    /\ \E prop \in DrawnProperties, args \in DrawnArgs, hidden_pk \in BOOLEAN,
          mapper_class \in {"User", "Tag"} :
        LET r == convert(view, mapper_class, prop, args, hidden_pk)
        IN  /\ ret' = [op |-> "convert", prop |-> prop, args |-> args,
                       hidden_pk |-> hidden_pk, mapper_class |-> mapper_class,
                       raised |-> r.raised, field |-> r.field, kwargs |-> r.kwargs]
            /\ session_queries' = session_queries \o SessionQueries(r.kwargs)
    /\ UNCHANGED <<converters, use_mro, conv_call, view, field_args, info_call>>

\* converter.convert called directly on a property of User with the entry of
\* the caller's field_args mapping.
ConvertKept ==
    /\ ret = NoCall
    /\ Reusable
    /\ \E i \in 1..Len(User.properties), hidden_pk \in BOOLEAN :
        LET prop == User.properties[i]
            args == FieldArgsGet(field_args, prop.key)
            r == convert(view, "User", prop, args, hidden_pk)
        IN  /\ ret' = [op |-> "convert", prop |-> prop, args |-> args,
                       hidden_pk |-> hidden_pk, mapper_class |-> "User",
                       raised |-> r.raised, field |-> r.field, kwargs |-> r.kwargs]
            /\ field_args' = AfterConvert(field_args, prop.key, r)
            /\ session_queries' = session_queries \o SessionQueries(r.kwargs)
    /\ UNCHANGED <<converters, use_mro, conv_call, view, info_call>>

\* get_form(model, converter, only=..., exclude=..., field_args=field_args, ...)
GetForm ==
    /\ ret = NoCall
    /\ Reusable
    /\ \E call \in GetFormCalls, hidden_pk \in BOOLEAN, ignore_hidden \in BOOLEAN :
        LET model == call.model
            only == call.only
            exclude == call.exclude
            r == get_form(view, model, only, exclude, field_args, hidden_pk, ignore_hidden)
        IN  /\ ret' = [op |-> "get_form", model |-> model.name, only |-> only,
                       exclude |-> exclude, hidden_pk |-> hidden_pk,
                       ignore_hidden |-> ignore_hidden, raised |-> r.raised,
                       calls |-> r.calls,
                       form |-> IF r.raised = None THEN <<FormClass(model, r.field_dict)>>
                                ELSE <<>>]
            /\ field_args' = r.fa
            /\ session_queries' = session_queries \o r.queries
    /\ UNCHANGED <<converters, use_mro, conv_call, view, info_call>>

\* The fields the caller holds after a call: the field convert returned, or
\* the fields of the form class get_form returned.
HeldFields ==
    IF ret.op = "convert" /\ ret.raised = None /\ ret.field.class # None
    THEN {ret.field}
    ELSE IF ret.op = "get_form" /\ ret.raised = None
    THEN {ret.form[1].fields[n] : n \in DOMAIN ret.form[1].fields}
    ELSE {}

\* The query factories convert built that the held fields were given.
HeldFactories ==
    {f.kwargs["query_factory"] :
        f \in {g \in HeldFields : /\ "query_factory" \in DOMAIN g.kwargs
                                  /\ "lambda" \in DOMAIN g.kwargs["query_factory"]
                                  /\ g.kwargs["query_factory"].lambda = "session.query"}}

\* A form of the returned class is rendered or validated: a select field
\* calls the query_factory it was given, which runs session.query(remote_model).
UseQueryFactory ==
    /\ Len(session_queries) < MaxQueries
    /\ \E factory \in HeldFactories :
        session_queries' = Append(session_queries, factory.remote_model)
    /\ UNCHANGED <<converters, use_mro, conv_call, view, field_args, ret, info_call>>

\* The request ends: the caller drops the field or form class it was returned,
\* and the request's session with it.
Release ==
    /\ ret # NoCall
    /\ ret' = NoCall
    /\ session_queries' = <<>>
    /\ UNCHANGED <<converters, use_mro, conv_call, view, field_args, info_call>>

Next == ConvertDrawn \/ ConvertKept \/ GetForm \/ UseQueryFactory \/ Release

Spec == Init /\ [][Next]_vars

(***************************************************************************)
(* utils.get_primary_key                                                   *)
(***************************************************************************)

\* hasattr(p, 'columns') and some column of p is a primary key.
HasPrimaryKeyColumn(p) ==
    p.kind = "column" /\ \E i \in 1..Len(p.columns) : p.columns[i].primary_key

\* get_primary_key(model): the key of the first such property, else None.
get_primary_key(model) ==
    LET hits == {i \in 1..Len(model.properties) : HasPrimaryKeyColumn(model.properties[i])}
    IN  IF hits = {} THEN None
        ELSE model.properties[CHOOSE i \in hits : \A j \in hits : i <= j].key

(***************************************************************************)
(* Properties of convert and get_form                                      *)
(***************************************************************************)

\* The validators a field was constructed with.
FieldValidators(field) ==
    IF "validators" \in DOMAIN field.kwargs THEN field.kwargs["validators"] ELSE <<>>

\* The validators a convert call appended: what kwargs['validators'] holds
\* beyond the list the call started from.
StartValidators(args) == IF "validators" \in DOMAIN args THEN args["validators"] ELSE <<>>
AppendedValidators(args, kwargs) ==
    SubSeq(kwargs["validators"], Len(StartValidators(args)) + 1, Len(kwargs["validators"]))

ModelNamed(name) == CHOOSE m \in {User, Place, NotMapped} : m.name = name

\* C2: no call changes the field_args mapping the caller passed, nor any
\* value in it (its 'validators' lists in particular).
C2_FieldArgsUnchanged == [][field_args' = field_args]_vars

\* C3: get_form with hidden_pk=False and an inclusion list naming the model's
\* primary key returns a form with a field for it that carries Unique.
C3_ListedPrimaryKeyIsUnique ==
    (/\ ret.op = "get_form"
     /\ ret.raised = None
     /\ ~ret.hidden_pk
     /\ OnlyGiven(ret.only)
     /\ Contains(ret.only[1], get_primary_key(ModelNamed(ret.model))))
    => LET pk == get_primary_key(ModelNamed(ret.model))
           fields == ret.form[1].fields
       IN  /\ pk \in DOMAIN fields
           /\ Contains(FieldValidators(fields[pk]), "Unique")

\* The case of C4: a single-column primary key, no hidden_pk, and the key not
\* in the inclusion list convert reads (the view's form_columns).
PrimaryKeyNotListed ==
    /\ ret.op = "convert"
    /\ ret.prop.kind = "column"
    /\ Len(ret.prop.columns) = 1
    /\ ret.prop.columns[1].primary_key
    /\ ~ret.hidden_pk
    /\ (IsNone(view.form_columns) \/ ~Contains(Value(view.form_columns), ret.prop.key))

\* C4: convert returns None for a primary-key column when hidden_pk is False
\* and the key is not in the inclusion list, whatever the column's type,
\* uniqueness, nullability, default or field-type override.
C4_UnlistedPrimaryKeyDropped ==
    PrimaryKeyNotListed => (ret.raised = None /\ ret.field = NoField)

\* C4 witness: such a call where an inclusion list is set without the key, a
\* field-type override is registered for the key and the column is unique.
C4_Witness ==
    /\ PrimaryKeyNotListed
    /\ ~IsNone(view.form_columns)
    /\ ret.prop.key \in DOMAIN view.form_overrides
    /\ ret.prop.columns[1].unique
    /\ ~ret.prop.columns[1].foreign_keys
    /\ ret.prop.columns[1].is_column
    /\ ret.field = NoField

\* convert returned a field for a column whose type is not Boolean.
NonBooleanColumnField ==
    /\ ret.op = "convert"
    /\ ret.prop.kind = "column"
    /\ ret.raised = None
    /\ ret.field # NoField
    /\ ~IsBoolean(ret.prop.columns[1].type)

NullabilityValidated ==
    /\ ret.prop.columns[1].nullable => Contains(FieldValidators(ret.field), "Optional")
    /\ ~ret.prop.columns[1].nullable => Contains(FieldValidators(ret.field), "Required")

\* C5 as stated: every field convert returns for a non-boolean column carries
\* Optional when the column is nullable and Required when it is not.
C5_Original == NonBooleanColumnField => NullabilityValidated

\* C5 amended: the same for every field but the HiddenField returned for a
\* primary key under hidden_pk, which is constructed without arguments.
C5_NullabilityValidators ==
    (NonBooleanColumnField /\ ~(ret.prop.columns[1].primary_key /\ ret.hidden_pk))
    => NullabilityValidated

\* C5 witness: a listed, non-nullable primary key yields a field with Unique
\* and Required through a field-type override.
C5_Witness ==
    /\ NonBooleanColumnField
    /\ ret.prop.columns[1].primary_key
    /\ ~ret.hidden_pk
    /\ ~ret.prop.columns[1].nullable
    /\ ret.field.class = "CustomField"
    /\ Contains(FieldValidators(ret.field), "Unique")
    /\ Contains(FieldValidators(ret.field), "Required")

\* C5 witness of the other paths: a nullable column converted by the registry.
C5_WitnessRegistry ==
    /\ NonBooleanColumnField
    /\ ret.prop.columns[1].nullable
    /\ ret.field.class = "TextAreaField"
    /\ Contains(FieldValidators(ret.field), "Optional")

\* C6: for a many-to-many relation convert appends no Required, nullable local
\* column or not; for the other directions it appends Required exactly when
\* the local column is not nullable and Optional exactly when it is.
C6_RelationValidators ==
    (ret.op = "convert" /\ ret.prop.kind = "relation") =>
        LET appended == AppendedValidators(ret.args, ret.kwargs)
            nullable == ret.prop.local_column.nullable
        IN  IF ret.prop.direction = "MANYTOMANY"
            THEN ~Contains(appended, "Required")
            ELSE /\ Contains(appended, "Required") <=> ~nullable
                 /\ Contains(appended, "Optional") <=> nullable

\* C6 witness: a many-to-many relation over a non-nullable local column yields
\* a field and nothing was appended to the caller's validators.
C6_Witness ==
    /\ ret.op = "convert"
    /\ ret.prop.kind = "relation"
    /\ ret.prop.direction = "MANYTOMANY"
    /\ ~ret.prop.local_column.nullable
    /\ ret.field.class = "QuerySelectMultipleField"
    /\ FieldValidators(ret.field) = <<"Email">>

\* The inclusion list of the last get_form call names something find cannot resolve.
UnresolvableName ==
    /\ ret.op = "get_form"
    /\ ModelNamed(ret.model).mapped
    /\ OnlyGiven(ret.only)
    /\ \E i \in 1..Len(ret.only[1]) :
          find(ModelNamed(ret.model), ret.only[1][i]) = InvalidProperty

\* C7: with an unresolvable name in the inclusion list get_form raises
\* ValueError, returns no form class, and has not called convert for any
\* property, the valid names before the bad one included.
C7_RaisedBeforeAnyConvert ==
    UnresolvableName =>
        /\ ret.raised = "ValueError"
        /\ ret.form = <<>>
        /\ ret.calls = <<>>

\* The label C10 expects for a relation: the explicit label argument, else the
\* view's column label for the key, else prettify_name(key).
ExpectedLabel(v, key, args) ==
    IF "label" \in DOMAIN args THEN args["label"]
    ELSE IF key \in DOMAIN v.column_labels THEN v.column_labels[key]
    ELSE prettify_name(key)

\* C10: the label given to a relation's field is the first available of the
\* explicit label, the column-label entry and prettify_name(name).
C10_RelationLabel ==
    (/\ ret.op = "convert"
     /\ ret.prop.kind = "relation"
     /\ ret.field # NoField)
    => ret.field.kwargs["label"] = ExpectedLabel(view, ret.prop.key, ret.args)

\* The names the claim selects: those of the inclusion list when one is
\* given, else the mapped properties' keys without the excluded ones.
SelectedNames(model, only, exclude, given) ==
    IF given THEN {only[1][i] : i \in 1..Len(only[1])}
    ELSE {model.properties[i].key : i \in 1..Len(model.properties)} \ exclude

\* The property a selected name stands for.
SelectedProperty(model, name, given) ==
    IF given THEN find(model, name) ELSE PropsGet(model, name)[1]

\* The selected names that are not protected names under ignore_hidden and
\* whose property convert returns a field for.
ExpectedFields(v, model, only, exclude, hidden_pk, ignore_hidden, given) ==
    {n \in SelectedNames(model, only, exclude, given) :
        /\ ~(ignore_hidden /\ StartsWithUnderscore(n))
        /\ convert(v, model.name, SelectedProperty(model, n, given), EmptyDict,
                   hidden_pk).field # NoField}

\* The selected names in the order get_form is to visit them.
VisitOrder(model, only, exclude, ignore_hidden, given) ==
    LET keys == [i \in 1..Len(model.properties) |-> model.properties[i].key]
        Visited(n) == ~(ignore_hidden /\ StartsWithUnderscore(n))
        Kept(n) == n \notin exclude
    IN  SelectSeq(IF given THEN only[1] ELSE SelectSeq(keys, Kept), Visited)

FormReturned == ret.op = "get_form" /\ ret.raised = None

\* C9 as stated: the returned form's fields are the selected properties (the
\* inclusion list whenever one is passed) without the protected names under
\* ignore_hidden and without those convert returns None for.
C9_Original ==
    FormReturned =>
        DOMAIN ret.form[1].fields =
            ExpectedFields(view, ModelNamed(ret.model), ret.only, ret.exclude,
                           ret.hidden_pk, ret.ignore_hidden, ~IsNone(ret.only))

\* C9 amended: the same with the inclusion list selecting only when it is not
\* empty (an empty list is treated as no list); the names are visited in the
\* caller's order, or in declaration order.
C9_FieldSet ==
    FormReturned =>
        LET model == ModelNamed(ret.model)
            given == OnlyGiven(ret.only)
        IN  /\ DOMAIN ret.form[1].fields =
                 ExpectedFields(view, model, ret.only, ret.exclude, ret.hidden_pk,
                                ret.ignore_hidden, given)
            /\ ret.calls = VisitOrder(model, ret.only, ret.exclude, ret.ignore_hidden, given)

\* C9 witness: an inclusion list with a protected name that is skipped and a
\* proxied property that gets a field.
C9_Witness ==
    /\ FormReturned
    /\ ret.only = Some(<<"_token", "nick">>)
    /\ ret.ignore_hidden
    /\ DOMAIN ret.form[1].fields = {"nick"}

\* C9 witness without an inclusion list: the excluded names and the
\* properties convert returns None for are absent.
C9_WitnessDeclared ==
    /\ FormReturned
    /\ IsNone(ret.only)
    /\ ret.exclude # {}
    /\ ~ret.hidden_pk
    /\ DOMAIN ret.form[1].fields = {"email", "group"}

(***************************************************************************)
(* InlineFormAdmin and InlineModelConverterBase.get_info                   *)
(***************************************************************************)

\* InlineFormAdmin._defaults
_defaults == {"form_columns", "form_excluded_columns", "form_args"}

\* InlineFormAdmin.__init__(model, **kwargs) on a class whose own attributes
\* are class_attrs: the attributes of the instance.
InlineFormAdmin(class_attrs, model, kwargs) ==
    [attrs |-> kwargs @@ [k \in {"model"} |-> model] @@ class_attrs
               @@ [k \in _defaults |-> None]]

\* InlineModelConverterBase.get_info(p): <<>> for None.
get_info(p) ==
    IF p.kind = "tuple" THEN <<InlineFormAdmin(EmptyDict, p.model, p.options)>>
    ELSE IF p.kind = "InlineFormAdmin" THEN <<p.instance>>
    ELSE <<>>

\* The inline models get_info is given: (model, options) tuples, InlineFormAdmin
\* instances (of the class or of a subclass that sets form_columns) and models.
InlineModels == {"Tag", "Address"}
OptionKeys == {"form_columns", "form_args", "form_label"}
Options == UNION {[ks -> {"a", "b"}] : ks \in SUBSET OptionKeys}
InfoArguments ==
    {[kind |-> "tuple", model |-> m, options |-> o] : m \in InlineModels, o \in Options}
    \cup {[kind |-> "InlineFormAdmin", instance |-> InlineFormAdmin(c, m, o)] :
            c \in {EmptyDict, [k \in {"form_columns"} |-> "name,email"]},
            m \in InlineModels, o \in Options}
    \cup {[kind |-> "class", model |-> m] : m \in InlineModels}

InitInfo == ConvIdle /\ FormIdle

\* A call of get_info(p).
GetInfo ==
    /\ \E p \in InfoArguments :
        info_call' = [op |-> "get_info", p |-> p, result |-> get_info(p)]
    /\ UNCHANGED <<converters, use_mro, conv_call, view, field_args, ret, session_queries>>

NextInfo == GetInfo

SpecInfo == InitInfo /\ [][NextInfo]_vars

\* C8: get_info returns a settings object for each accepted argument: for a
\* (model, options) tuple an InlineFormAdmin of the model with the options
\* set, for an InlineFormAdmin instance that instance, for a model class an
\* InlineFormAdmin of the model; never None.
C8_InfoNormalized ==
    info_call.op = "get_info" =>
        LET p == info_call.p
            r == info_call.result
        IN  /\ Len(r) = 1
            /\ p.kind = "tuple" =>
                 /\ r[1].attrs["model"] = p.model
                 /\ \A k \in DOMAIN p.options : r[1].attrs[k] = p.options[k]
            /\ p.kind = "InlineFormAdmin" => r[1] = p.instance
            /\ p.kind = "class" => r[1].attrs["model"] = p.model

(***************************************************************************)
(* Queries against the session                                             *)
(***************************************************************************)

\* A call of convert or get_form returns: ret goes from no call to a result.
CallReturns == ret = NoCall /\ ret' # NoCall

\* The fields of result r: the field of a convert call, the fields of the
\* form class of a get_form call.
FieldsOf(r) ==
    IF r.op = "convert" /\ r.raised = None /\ r.field.class # None THEN {r.field}
    ELSE IF r.op = "get_form" /\ r.raised = None
    THEN {r.form[1].fields[n] : n \in DOMAIN r.form[1].fields}
    ELSE {}

\* The fields of result r that were given a query_factory.
FactoryFields(r) == {f \in FieldsOf(r) : "query_factory" \in DOMAIN f.kwargs}

\* The query_factory of field f is a callable not called yet.
Deferred(f) == "lambda" \in DOMAIN f.kwargs["query_factory"]

\* The select field a direct convert call built by default, the caller having
\* passed no query_factory of its own.
DefaultSelect(r) ==
    /\ r.op = "convert"
    /\ r.prop.kind = "relation"
    /\ r.raised = None
    /\ r.field.class \in {"QuerySelectField", "QuerySelectMultipleField"}
    /\ "query_factory" \notin DOMAIN r.args

\* C11: no call of convert or get_form runs session.query: when the call
\* returns (or raises) the session's query log is what it was before the
\* call; every query_factory a returned field holds is a callable not called
\* yet, and the one convert builds itself is the zero-argument callable that
\* will run session.query on the relation's remote model.
C11_NoQueryDuringConstruction ==
    [][CallReturns =>
        /\ session_queries' = session_queries
        /\ \A f \in FactoryFields(ret') : Deferred(f)
        /\ DefaultSelect(ret') =>
             ret'.field.kwargs["query_factory"] =
                [lambda |-> "session.query", remote_model |-> ret'.prop.remote_model]]_vars

\* A form class is returned whose fields include a select field with the
\* deferred query factory and a field validated by Unique, and the session
\* has not been queried.
C11_Witness ==
    /\ FormReturned
    /\ session_queries = <<>>
    /\ \E f \in FactoryFields(ret) :
        /\ f.class = "QuerySelectField"
        /\ f.kwargs["query_factory"] = [lambda |-> "session.query", remote_model |-> "Group"]
    /\ \E f \in FieldsOf(ret) :
        "validators" \in DOMAIN f.kwargs /\ Contains(f.kwargs["validators"], "Unique")

\* The query is run later, by the field of a returned form class.
C11_WitnessLaterUse ==
    /\ FormReturned
    /\ session_queries = <<"Group">>

====
